---------------------------- MODULE Spec2Model ----------------------------
(***************************************************************************)
(* whatnext: CRUD operations on tasks stored as node attributes of a       *)
(* networkx DiGraph (src/whatnext/tasks.py, src/whatnext/data_model.py).   *)
(*                                                                         *)
(* A Task object is a record over all eleven fields; an Optional field is  *)
(* <<>> for None and <<v>> for the value v.  A node's attribute dict is a  *)
(* function whose DOMAIN is the set of keys the dict holds.  Every handler *)
(* is an operator from the graph and its arguments to an outcome           *)
(* [graph, raised, value]: the graph it leaves, the exception it raised    *)
(* (NoExc when it returned) and the value it returned.                     *)
(*                                                                         *)
(* Spec runs the handlers one whole call at a time.  ConcSpec runs         *)
(* create_task and add_tag for two callers, one store access per step.     *)
(***************************************************************************)
EXTENDS Integers, Sequences, FiniteSets, TLC

VARIABLES graph, ret, profile, callers

vars == <<graph, ret, profile, callers>>

---------------------------------------------------------------------------
(* Bounds and input domains *)

\* largest task id a caller supplies; node ids are 0..MaxTaskId
MaxTaskId == 1

TaskIds == 0..MaxTaskId

\* the id arguments callers pass: a negative one asks create_task for an auto id
IdArgs == -1..MaxTaskId

EXISTING_NODE == "_existing_node"

Names == {"n1", EXISTING_NODE}

UserIds == {"u1"}

Times == {1, 2}

TagValues == {"t1", "t2"}

NoteValues == {"x", "y"}

None == <<>>

Some(v) == <<v>>

NoExc == "none"

RequiredFields == {"user_id", "task_id", "name", "importance"}

OptionalFields == {"completed", "due", "tags", "urls", "users", "notes", "time_logs"}

TimeLogRequired == {"task_id", "user_id", "note"}

---------------------------------------------------------------------------
(* data_model.py *)

\* TimeLog(task_id=, user_id=, start_time=, end_time=, note=): note is a str
\* field, so None is refused by validation
TimeLog(task_id, user_id, start_time, end_time, note) ==
    IF note = None
    THEN [raised |-> "ValidationError", value |-> None]
    ELSE [raised |-> NoExc,
          value |-> Some([task_id |-> task_id, user_id |-> user_id,
                          start_time |-> start_time, end_time |-> end_time,
                          note |-> note[1]])]

\* TimeLog.dict(exclude_defaults, exclude_none, exclude_unset): the required
\* fields, and the Optional ones that are not None
TimeLogDict(tl) ==
    [k \in TimeLogRequired
           \cup (IF tl.start_time # None THEN {"start_time"} ELSE {})
           \cup (IF tl.end_time # None THEN {"end_time"} ELSE {}) |->
        CASE k = "task_id" -> tl.task_id
          [] k = "user_id" -> tl.user_id
          [] k = "note" -> tl.note
          [] k = "start_time" -> tl.start_time[1]
          [] k = "end_time" -> tl.end_time[1]]

\* a TimeLog object validated from a stored dict
TimeLogFromDict(d) ==
    [task_id |-> d["task_id"], user_id |-> d["user_id"],
     start_time |-> IF "start_time" \in DOMAIN d THEN Some(d["start_time"]) ELSE None,
     end_time |-> IF "end_time" \in DOMAIN d THEN Some(d["end_time"]) ELSE None,
     note |-> d["note"]]

\* Task.dict(exclude_defaults, exclude_none, exclude_unset): the four required
\* fields and every Optional field that is not None, nested TimeLogs as dicts
TaskDict(task) ==
    [k \in RequiredFields \cup {f \in OptionalFields : task[f] # None} |->
        IF k \in RequiredFields THEN task[k]
        ELSE IF k = "time_logs"
             THEN [i \in 1..Len(task.time_logs[1]) |-> TimeLogDict(task.time_logs[1][i])]
             ELSE task[k][1]]

\* Task(**attrs): validation needs the four required keys; keys that are no
\* field of Task (kind) are ignored; absent Optional fields are None
TaskFromKwargs(attrs) ==
    IF ~(RequiredFields \subseteq DOMAIN attrs)
    THEN [raised |-> "ValidationError", value |-> None]
    ELSE [raised |-> NoExc,
          value |-> Some(
            [k \in RequiredFields \cup OptionalFields |->
                IF k \in RequiredFields THEN attrs[k]
                ELSE IF k \notin DOMAIN attrs THEN None
                ELSE IF k = "time_logs"
                     THEN Some([i \in 1..Len(attrs[k]) |-> TimeLogFromDict(attrs[k][i])])
                     ELSE Some(attrs[k])])]

\* Task(x): BaseModel.__init__ takes keyword arguments only, so a positional
\* argument raises TypeError before any field is read
TaskFromPositional(attrs) ==
    [raised |-> "TypeError", value |-> None]

---------------------------------------------------------------------------
(* The networkx store, as tasks.py uses it *)

Returns(g, v) == [graph |-> g, raised |-> NoExc, value |-> v]

Raises(g, e) == [graph |-> g, raised |-> e, value |-> None]

\* len(graph.nodes)
NodeCount(g) == Cardinality(DOMAIN g)

\* dict.update / keyword merge: the keys of new over those of old
Merged(new, old) == new @@ old

\* graph.add_node(n, **attr): a new node gets attr; an existing node's
\* attribute dict is updated with attr and keeps its other keys
AddNode(g, n, attr) ==
    IF n \in DOMAIN g THEN [g EXCEPT ![n] = Merged(attr, g[n])]
    ELSE (n :> attr) @@ g

\* graph.nodes[n] = spec: NodeView has no item assignment
NodeViewSetItem(g, n, spec) == Raises(g, "TypeError")

\* a dict without one key
Without(d, key) == [k \in (DOMAIN d) \ {key} |-> d[k]]

SeqToSet(s) == {s[i] : i \in 1..Len(s)}

\* list(S) for a Python set S: the members in the iteration order ord
ListOf(S, ord) == SelectSeq(ord, LAMBDA x : x \in S)

Orderings(S) == {s \in [1..Cardinality(S) -> S] : SeqToSet(s) = S}

---------------------------------------------------------------------------
(* tasks.py: the store adapter *)

\* create_task as it would be if the merge branch replaced the node's
\* attributes by the given ones, the way update_task_in_graph assigns them
create_task_replace(g, task) ==
    IF task.task_id >= 0 /\ task.name = EXISTING_NODE
    THEN IF task.task_id \notin DOMAIN g THEN Raises(g, "KeyError")
         ELSE Returns([g EXCEPT ![task.task_id] = Without(TaskDict(task), "name")],
                      Some(task.task_id))
    ELSE LET t == IF task.task_id < 0 THEN [task EXCEPT !.task_id = NodeCount(g)]
                  ELSE task
         IN Returns(AddNode(g, t.task_id, Merged([kind |-> "task"], TaskDict(t))),
                    Some(t.task_id))

\* create_task as it would be if the id taken from the node count named the
\* node but was not assigned to task.task_id before the task is serialised
create_task_stale_id(g, task) ==
    IF task.task_id >= 0 /\ task.name = EXISTING_NODE
    THEN LET task_spec == Without(TaskDict(task), "name") IN
         IF task.task_id \notin DOMAIN g THEN Raises(g, "KeyError")
         ELSE Returns([g EXCEPT ![task.task_id] = Merged(task_spec, g[task.task_id])],
                      Some(task.task_id))
    ELSE LET n == IF task.task_id < 0 THEN NodeCount(g) ELSE task.task_id
         IN Returns(AddNode(g, n, Merged([kind |-> "task"], TaskDict(task))), Some(n))

create_task(g, task) ==
    IF task.task_id >= 0 /\ task.name = EXISTING_NODE
    THEN LET task_spec == Without(TaskDict(task), "name") IN
         IF task.task_id \notin DOMAIN g THEN Raises(g, "KeyError")
         ELSE Returns([g EXCEPT ![task.task_id] = Merged(task_spec, g[task.task_id])],
                      Some(task.task_id))
    ELSE LET t == IF task.task_id < 0 THEN [task EXCEPT !.task_id = NodeCount(g)]
                  ELSE task
         IN Returns(AddNode(g, t.task_id, Merged([kind |-> "task"], TaskDict(t))),
                    Some(t.task_id))

delete_task(g, task_id) == Raises(g, "NotImplementedError")

get_task_from_graph(g, task_id) ==
    IF task_id \notin DOMAIN g THEN [raised |-> "KeyError", value |-> None]
    ELSE TaskFromPositional(g[task_id])

\* task.dict() has already turned the nested TimeLogs into dicts, so
\* time_log.dict fails on the first entry; with no entry the spec gets
\* time_logs = [] and is assigned to graph.nodes[task_id]
update_task_in_graph(task, g) ==
    LET task_spec == TaskDict(task) IN
    IF "time_logs" \in DOMAIN task_spec /\ Len(task_spec["time_logs"]) > 0
    THEN Raises(g, "AttributeError")
    ELSE NodeViewSetItem(g, task.task_id, Merged([time_logs |-> <<>>], task_spec))

---------------------------------------------------------------------------
(* tasks.py: single-task operations.  An Optional argument is None or Some(v) *)

\* update_task as it would be with the arguments patched straight onto the
\* node's attributes, the way create_task's merge branch writes
update_task_patch(g, task_id, user_id, name, completed, importance, due) ==
    IF task_id \in DOMAIN g
    THEN LET given == [user_id |-> user_id, name |-> name, completed |-> completed,
                       importance |-> importance, due |-> due]
             patch == [k \in {f \in DOMAIN given : given[f] # None} |-> given[k][1]]
         IN Returns([g EXCEPT ![task_id] = Merged(patch, g[task_id])], None)
    ELSE Returns(g, None)

update_task(g, task_id, user_id, name, completed, importance, due) ==
    IF task_id \in DOMAIN g
    THEN LET got == get_task_from_graph(g, task_id) IN
         IF got.raised # NoExc THEN Raises(g, got.raised)
         ELSE LET t0 == got.value[1]
                  t1 == IF user_id # None /\ user_id[1] # ""
                        THEN [t0 EXCEPT !.user_id = user_id[1]] ELSE t0
                  t2 == IF name # None /\ name[1] # ""
                        THEN [t1 EXCEPT !.name = name[1]] ELSE t1
                  t3 == IF completed # None
                        THEN [t2 EXCEPT !.completed = completed] ELSE t2
                  t4 == IF importance # None
                        THEN [t3 EXCEPT !.importance = importance[1]] ELSE t3
                  task == IF due # None THEN [t4 EXCEPT !.due = due] ELSE t4
                  put == update_task_in_graph(task, g)
              IN IF put.raised # NoExc THEN put ELSE Returns(put.graph, Some(task))
    ELSE Returns(g, None)

\* now is the clock's reading, used when end_time is None
complete_task(g, task_id, end_time, now) ==
    LET end == IF end_time # None THEN end_time[1] ELSE now
        got == get_task_from_graph(g, task_id)
    IN
    IF got.raised # NoExc THEN Raises(g, got.raised)
    ELSE IF got.value = None THEN Returns(g, None)
    ELSE LET t0 == got.value[1] IN
         IF t0.completed = Some(TRUE) THEN Returns(g, Some(t0))
         ELSE LET t1 == [t0 EXCEPT !.completed = Some(TRUE)] IN
              IF t1.time_logs = None THEN Raises(g, "TypeError")
              ELSE LET logs == t1.time_logs[1] IN
                   IF Len(logs) > 0
                   THEN LET last_log == logs[Len(logs)]
                            closed == IF last_log.end_time = None
                                      THEN [last_log EXCEPT !.end_time = Some(end)]
                                      ELSE last_log
                            task == [t1 EXCEPT !.time_logs =
                                        Some([logs EXCEPT ![Len(logs)] = closed])]
                            put == update_task_in_graph(task, g)
                        IN IF put.raised # NoExc THEN put
                           ELSE Returns(put.graph, Some(task))
                   ELSE LET time_log == TimeLog(t1.task_id, t1.user_id, None,
                                                Some(end), None)
                        IN IF time_log.raised # NoExc THEN Raises(g, time_log.raised)
                           ELSE LET task == [t1 EXCEPT !.time_logs =
                                                Some(Append(logs, time_log.value[1]))]
                                    put == update_task_in_graph(task, g)
                                IN IF put.raised # NoExc THEN put
                                   ELSE Returns(put.graph, Some(task))

\* the shared body of add_tag, add_url and add_user on the field named field:
\* set(task.f); add; task.f = list(set); write back
AddToField(g, task_id, field, v, ord) ==
    LET got == get_task_from_graph(g, task_id) IN
    IF got.raised # NoExc THEN Raises(g, got.raised)
    ELSE LET t0 == got.value[1] IN
         IF t0[field] = None THEN Raises(g, "TypeError")
         ELSE LET members == SeqToSet(t0[field][1]) \cup {v}
                  task == [t0 EXCEPT ![field] = Some(ListOf(members, ord))]
                  put == update_task_in_graph(task, g)
              IN IF put.raised # NoExc THEN put ELSE Returns(put.graph, None)

\* the shared body of remove_tag and remove_url: set.remove raises KeyError
\* for a value that is no member
RemoveFromField(g, task_id, field, v, ord) ==
    LET got == get_task_from_graph(g, task_id) IN
    IF got.raised # NoExc THEN Raises(g, got.raised)
    ELSE LET t0 == got.value[1] IN
         IF t0[field] = None THEN Raises(g, "TypeError")
         ELSE IF v \notin SeqToSet(t0[field][1]) THEN Raises(g, "KeyError")
         ELSE LET members == SeqToSet(t0[field][1]) \ {v}
                  task == [t0 EXCEPT ![field] = Some(ListOf(members, ord))]
                  put == update_task_in_graph(task, g)
              IN IF put.raised # NoExc THEN put ELSE Returns(put.graph, None)

add_tag(g, task_id, tag, ord) == AddToField(g, task_id, "tags", tag, ord)

\* remove_tag as it would be with the failure swallowed and None returned
remove_tag_swallow(g, task_id, tag, ord) ==
    Returns(RemoveFromField(g, task_id, "tags", tag, ord).graph, None)

remove_tag(g, task_id, tag, ord) == RemoveFromField(g, task_id, "tags", tag, ord)

add_url(g, task_id, url, ord) == AddToField(g, task_id, "urls", url, ord)

remove_url(g, task_id, url, ord) == RemoveFromField(g, task_id, "urls", url, ord)

add_user(g, task_id, user, ord) == AddToField(g, task_id, "users", user, ord)

\* users.remove(users): the argument is the set itself, never one of its
\* members (they are strings), so set.remove raises KeyError whatever user is
remove_user(g, task_id, user, ord) ==
    LET got == get_task_from_graph(g, task_id) IN
    IF got.raised # NoExc THEN Raises(g, got.raised)
    ELSE LET t0 == got.value[1] IN
         IF t0.users = None THEN Raises(g, "TypeError")
         ELSE Raises(g, "KeyError")

add_note(g, task_id, note) ==
    LET got == get_task_from_graph(g, task_id) IN
    IF got.raised # NoExc THEN Raises(g, got.raised)
    ELSE LET t0 == got.value[1]
             notes == IF t0.notes = None THEN <<>> ELSE t0.notes[1]
             task == [t0 EXCEPT !.notes = Some(Append(notes, note))]
             put == update_task_in_graph(task, g)
         IN IF put.raised # NoExc THEN put ELSE Returns(put.graph, None)

\* update_note as it would be if it indexed the stored notes in place, without
\* loading the task and writing it back
update_note_in_place(g, task_id, note_id, note) ==
    IF task_id \notin DOMAIN g THEN Raises(g, "KeyError")
    ELSE IF "notes" \notin DOMAIN g[task_id] THEN Raises(g, "TypeError")
    ELSE LET notes == g[task_id]["notes"]
             at == IF note_id >= 0 THEN note_id + 1 ELSE Len(notes) + note_id + 1
         IN IF note_id < Len(notes) /\ at < 1 THEN Raises(g, "IndexError")
            ELSE IF note_id < Len(notes)
                 THEN Returns([g EXCEPT ![task_id]["notes"][at] = note], None)
                 ELSE Returns(g, None)

\* note_id < len(notes) lets a negative note_id through: Python then indexes
\* from the end, and raises IndexError below -len(notes)
update_note(g, task_id, note_id, note) ==
    LET got == get_task_from_graph(g, task_id) IN
    IF got.raised # NoExc THEN Raises(g, got.raised)
    ELSE LET t0 == got.value[1] IN
         IF t0.notes = None THEN Raises(g, "TypeError")
         ELSE LET notes == t0.notes[1]
                  at == IF note_id >= 0 THEN note_id + 1 ELSE Len(notes) + note_id + 1
              IN IF note_id < Len(notes) /\ at < 1 THEN Raises(g, "IndexError")
                 ELSE LET task == IF note_id < Len(notes)
                                  THEN [t0 EXCEPT !.notes = Some([notes EXCEPT ![at] = note])]
                                  ELSE t0
                          put == update_task_in_graph(task, g)
                      IN IF put.raised # NoExc THEN put ELSE Returns(put.graph, None)

remove_note(g, task_id, note_id) ==
    LET got == get_task_from_graph(g, task_id) IN
    IF got.raised # NoExc THEN Raises(g, got.raised)
    ELSE LET t0 == got.value[1] IN
         IF t0.notes = None THEN Raises(g, "TypeError")
         ELSE LET notes == t0.notes[1] IN
              IF 0 <= note_id /\ note_id < Len(notes)
              THEN LET popped == [i \in 1..(Len(notes) - 1) |->
                                    IF i <= note_id THEN notes[i] ELSE notes[i + 1]]
                       task == [t0 EXCEPT !.notes = Some(popped)]
                       put == update_task_in_graph(task, g)
                   IN IF put.raised # NoExc THEN put ELSE Returns(put.graph, None)
              ELSE Returns(g, None)

---------------------------------------------------------------------------
(* tasks.py: list_tasks, and the sort step it delegates to *)

\* the order of two names as Python compares the strings of Names
NameRank(name) ==
    CASE name = EXISTING_NODE -> 0
      [] name = "n1" -> 1
      [] OTHER -> 2

SortKey(g, n, sort_by) ==
    IF sort_by = "name" THEN NameRank(g[n]["name"]) ELSE g[n][sort_by]

\* sort_nodes(graph, sort_by, limit, ascending, only_leaves): the sequences
\* the sort step may return, the first limit ids of the candidates ordered by
\* the field sort_by, equal keys in any order.  No operation of tasks.py adds
\* an edge, so every node is a leaf.
sort_nodes(g, sort_by, limit, ascending, only_leaves) ==
    LET sorted == {s \in Orderings(DOMAIN g) :
                      \A i \in 1..(Len(s) - 1) :
                          IF ascending
                          THEN SortKey(g, s[i], sort_by) <= SortKey(g, s[i + 1], sort_by)
                          ELSE SortKey(g, s[i], sort_by) >= SortKey(g, s[i + 1], sort_by)}
        n == IF limit < NodeCount(g) THEN limit ELSE NodeCount(g)
    IN {SubSeq(s, 1, n) : s \in sorted}

\* the filter as it would be if a node had to hold every wanted value
FilterByFieldAll(g, node_ids, field, wanted) ==
    IF wanted # None /\ Len(wanted[1]) > 0
    THEN SelectSeq(node_ids,
            LAMBDA n : SeqToSet(wanted[1]) \subseteq
                          (IF field \in DOMAIN g[n] THEN SeqToSet(g[n][field]) ELSE {}))
    ELSE node_ids

\* one of the tags/urls/users filters: wanted is None or a list; a node
\* without the field counts as holding the empty list
FilterByField(g, node_ids, field, wanted) ==
    IF wanted # None /\ Len(wanted[1]) > 0
    THEN SelectSeq(node_ids,
            LAMBDA n : (IF field \in DOMAIN g[n] THEN SeqToSet(g[n][field]) ELSE {})
                          \cap SeqToSet(wanted[1]) # {})
    ELSE node_ids

\* list_tasks as it would be if the filters ran over every node of the graph
\* instead of the candidates the sort step returned
list_tasks_all_nodes(g, node_ids, search, tags, urls, users) ==
    LET every == CHOOSE s \in Orderings(DOMAIN g) : TRUE
        kept == FilterByField(g, FilterByField(g, FilterByField(g, every, "tags", tags),
                                               "urls", urls), "users", users)
    IN Returns(g, Some([i \in 1..Len(kept) |-> TaskFromKwargs(g[kept[i]]).value[1]]))

\* node_ids is what sort_nodes returned.  The search filter calls the compiled
\* pattern, which is not callable: TypeError on the first candidate, and no
\* call at all when there is no candidate.
list_tasks(g, node_ids, search, tags, urls, users) ==
    IF search # None /\ search[1] # "" /\ Len(node_ids) > 0
    THEN Raises(g, "TypeError")
    ELSE LET kept == FilterByField(g,
                        FilterByField(g,
                            FilterByField(g, node_ids, "tags", tags),
                            "urls", urls),
                        "users", users)
             made == [i \in 1..Len(kept) |-> TaskFromKwargs(g[kept[i]])]
         IN IF \E i \in 1..Len(kept) : made[i].raised # NoExc
            THEN Raises(g, "ValidationError")
            ELSE Returns(g, Some([i \in 1..Len(kept) |-> made[i].value[1]]))

---------------------------------------------------------------------------
(* The callers' inputs.  A run exercises one family of the Task fields: its  *)
(* profile names the Optional fields that create_task's callers populate and *)
(* the operations they call on them.                                         *)

Profiles == {"flags", "logs", "tags", "urls", "users", "notes", "list"}

closedLog == [task_id |-> 0, user_id |-> "u1", start_time |-> Some(1),
              end_time |-> Some(1), note |-> "w"]

openLog == [task_id |-> 0, user_id |-> "u1", start_time |-> Some(1),
            end_time |-> None, note |-> "w"]

OptTimes == {None} \cup {Some(t) : t \in Times}

SetFieldArgs == {None, Some(<<"t1">>), Some(<<"t1", "t2">>)}

\* the values of the Optional field f that callers of profile p pass to create_task
FieldArgs(p, f) ==
    CASE f = "completed" -> IF p = "flags" THEN {None, Some(FALSE), Some(TRUE)}
                            ELSE IF p = "list" THEN {None}
                            ELSE {None, Some(TRUE)}
      [] f = "time_logs" -> IF p = "logs"
                            THEN {None, Some(<<>>), Some(<<closedLog>>),
                                  Some(<<closedLog, openLog>>)}
                            ELSE {None}
      [] f = "notes" -> IF p = "notes" THEN {None, Some(<<"x">>), Some(<<"x", "y">>)}
                        ELSE {None}
      [] f = "due" -> {None}
      [] OTHER -> IF p = f THEN SetFieldArgs
                  ELSE IF p = "list" THEN {None, Some(<<"t1">>)}
                  ELSE {None}

\* the Task objects callers of profile p pass to create_task; only flags
\* callers create a new node under the sentinel name
TaskArgs(p) ==
    {t \in [user_id : UserIds, task_id : IdArgs, name : Names, importance : {1},
            completed : FieldArgs(p, "completed"), due : FieldArgs(p, "due"),
            tags : FieldArgs(p, "tags"), urls : FieldArgs(p, "urls"),
            users : FieldArgs(p, "users"), notes : FieldArgs(p, "notes"),
            time_logs : FieldArgs(p, "time_logs")] :
        /\ (t.task_id < 0 /\ t.name = EXISTING_NODE) => p = "flags"
        /\ p = "list" => t.urls = t.users}

NoteIds == -1..2

\* the limits callers pass to list_tasks
Limits == {1, 2}

\* the filters callers pass to list_tasks; sort_by, ascending and only_leaves
\* keep their defaults.  A search comes without other filters and a users
\* filter alone; a urls filter comes alone or with a tags filter
ListArgs ==
    {a \in [search : {None, Some("n")},
            tags : {None, Some(<<>>), Some(<<"t2">>), Some(<<"t2", "t1">>)},
            urls : {None, Some(<<"t1">>)}, users : {None, Some(<<"t1">>)}] :
        /\ a.search # None => (a.tags = None /\ a.urls = None /\ a.users = None)
        /\ a.users # None => (a.tags = None /\ a.urls = None)
        /\ a.urls # None => a.tags \in {None, Some(<<"t2", "t1">>)}}

---------------------------------------------------------------------------
(* The state machine: one action per operation.  ret is the outcome of the  *)
(* last call: the operation, its task_id argument, its principal argument,  *)
(* the exception raised and the value returned.                             *)

Ret(op, task_id, arg, out) ==
    [op |-> op, task_id |-> task_id, arg |-> arg,
     raised |-> out.raised, value |-> out.value]

\* the arguments callers pass to update_task: a call gives at most two of
\* the five Optional arguments
UpdateArgs ==
    {a \in [user_id : {None, Some(""), Some("u2")}, name : {None, Some(""), Some("n2")},
            completed : {None, Some(FALSE), Some(TRUE)},
            importance : {None, Some(2)}, due : {None, Some(2)}] :
        Cardinality({f \in DOMAIN a : a[f] # None}) <= 2}

\* Two callers whose calls may interleave at their accesses to the store.
\* callers[c] is where caller c stands in its call: pc its next access to the
\* store, task the Task passed to create_task, task_id and tag the arguments
\* of add_tag, local the Task object the call has loaded, todo the keys
\* create_task's merge loop has still to assign, reads the number of times
\* the call has looked the task up in the store (get_task_from_graph, or
\* graph.nodes[task_id] in the merge loop), writes the number of writes to
\* the store it has made
Callers == {1, 2}

Idle ==
    [pc |-> "idle", op |-> "none", task |-> None, task_id |-> -1, tag |-> "",
     local |-> None, todo |-> <<>>, raised |-> NoExc, reads |-> 0, writes |-> 0]

\* under Spec every call runs from its first line to its last without
\* another in between, and callers stays idle
Init ==
    /\ graph = <<>>
    /\ ret = [op |-> "init", task_id |-> -1, arg |-> None,
              raised |-> NoExc, value |-> None]
    /\ profile \in Profiles
    /\ callers = [c \in Callers |-> Idle]

\* an auto id is the node count, which stays within TaskIds
CreateTask ==
    \E task \in TaskArgs(profile) :
        /\ task.task_id < 0 => NodeCount(graph) <= MaxTaskId
        /\ LET out == create_task(graph, task) IN
            /\ graph' = out.graph
            /\ ret' = Ret("create_task", task.task_id, Some(task.name), out)
        /\ UNCHANGED <<profile, callers>>

DeleteTask ==
    \E task_id \in TaskIds :
        /\ profile = "flags"
        /\ LET out == delete_task(graph, task_id) IN
            /\ graph' = out.graph
            /\ ret' = Ret("delete_task", task_id, None, out)
        /\ UNCHANGED <<profile, callers>>

GetTask ==
    \E task_id \in TaskIds :
        /\ LET got == get_task_from_graph(graph, task_id) IN
            ret' = [op |-> "get_task_from_graph", task_id |-> task_id, arg |-> None,
                    raised |-> got.raised, value |-> got.value]
        /\ UNCHANGED <<graph, profile, callers>>

UpdateTask ==
    \E task_id \in TaskIds, a \in UpdateArgs :
        /\ profile = "flags"
        /\ LET out == update_task(graph, task_id, a.user_id, a.name, a.completed,
                                  a.importance, a.due) IN
            /\ graph' = out.graph
            /\ ret' = Ret("update_task", task_id, a.completed, out)
        /\ UNCHANGED <<profile, callers>>

CompleteTask ==
    \E task_id \in TaskIds, end_time \in OptTimes, now \in Times :
        /\ profile \in {"flags", "logs"}
        /\ LET out == complete_task(graph, task_id, end_time, now) IN
            /\ graph' = out.graph
            /\ ret' = Ret("complete_task", task_id, end_time, out)
        /\ UNCHANGED <<profile, callers>>

AddTag ==
    \E task_id \in TaskIds, tag \in TagValues, ord \in Orderings(TagValues) :
        /\ profile = "tags"
        /\ LET out == add_tag(graph, task_id, tag, ord) IN
            /\ graph' = out.graph
            /\ ret' = Ret("add_tag", task_id, Some(tag), out)
        /\ UNCHANGED <<profile, callers>>

RemoveTag ==
    \E task_id \in TaskIds, tag \in TagValues, ord \in Orderings(TagValues) :
        /\ profile = "tags"
        /\ LET out == remove_tag(graph, task_id, tag, ord) IN
            /\ graph' = out.graph
            /\ ret' = Ret("remove_tag", task_id, Some(tag), out)
        /\ UNCHANGED <<profile, callers>>

AddUrl ==
    \E task_id \in TaskIds, url \in TagValues, ord \in Orderings(TagValues) :
        /\ profile = "urls"
        /\ LET out == add_url(graph, task_id, url, ord) IN
            /\ graph' = out.graph
            /\ ret' = Ret("add_url", task_id, Some(url), out)
        /\ UNCHANGED <<profile, callers>>

RemoveUrl ==
    \E task_id \in TaskIds, url \in TagValues, ord \in Orderings(TagValues) :
        /\ profile = "urls"
        /\ LET out == remove_url(graph, task_id, url, ord) IN
            /\ graph' = out.graph
            /\ ret' = Ret("remove_url", task_id, Some(url), out)
        /\ UNCHANGED <<profile, callers>>

AddUser ==
    \E task_id \in TaskIds, user \in TagValues, ord \in Orderings(TagValues) :
        /\ profile = "users"
        /\ LET out == add_user(graph, task_id, user, ord) IN
            /\ graph' = out.graph
            /\ ret' = Ret("add_user", task_id, Some(user), out)
        /\ UNCHANGED <<profile, callers>>

RemoveUser ==
    \E task_id \in TaskIds, user \in TagValues, ord \in Orderings(TagValues) :
        /\ profile = "users"
        /\ LET out == remove_user(graph, task_id, user, ord) IN
            /\ graph' = out.graph
            /\ ret' = Ret("remove_user", task_id, Some(user), out)
        /\ UNCHANGED <<profile, callers>>

AddNote ==
    \E task_id \in TaskIds, note \in NoteValues :
        /\ profile = "notes"
        /\ LET out == add_note(graph, task_id, note) IN
            /\ graph' = out.graph
            /\ ret' = Ret("add_note", task_id, None, out)
        /\ UNCHANGED <<profile, callers>>

UpdateNote ==
    \E task_id \in TaskIds, note_id \in NoteIds, note \in NoteValues :
        /\ profile = "notes"
        /\ LET out == update_note(graph, task_id, note_id, note) IN
            /\ graph' = out.graph
            /\ ret' = Ret("update_note", task_id, Some(note_id), out)
        /\ UNCHANGED <<profile, callers>>

RemoveNote ==
    \E task_id \in TaskIds, note_id \in NoteIds :
        /\ profile = "notes"
        /\ LET out == remove_note(graph, task_id, note_id) IN
            /\ graph' = out.graph
            /\ ret' = Ret("remove_note", task_id, Some(note_id), out)
        /\ UNCHANGED <<profile, callers>>

\* ret.arg is the limit, ret.value the Tasks returned
ListTasks ==
    \E limit \in Limits :
        /\ profile = "list"
        /\ \E node_ids \in sort_nodes(graph, "importance", limit, FALSE, FALSE) :
            \E a \in ListArgs :
                LET out == list_tasks(graph, node_ids, a.search, a.tags, a.urls, a.users) IN
                    /\ graph' = out.graph
                    /\ ret' = Ret("list_tasks", -1, Some(limit), out)
        /\ UNCHANGED <<profile, callers>>

Next ==
    \/ CreateTask
    \/ DeleteTask
    \/ GetTask
    \/ UpdateTask
    \/ CompleteTask
    \/ AddTag
    \/ RemoveTag
    \/ AddUrl
    \/ RemoveUrl
    \/ AddUser
    \/ RemoveUser
    \/ AddNote
    \/ UpdateNote
    \/ RemoveNote
    \/ ListTasks

Spec == Init /\ [][Next]_vars

---------------------------------------------------------------------------
(* create_task and add_tag run by two callers, one store access per step *)

\* the order in which Task.dict() yields the fields: that of the class body
FieldOrder ==
    <<"user_id", "task_id", "name", "importance", "completed", "due", "tags",
      "urls", "users", "notes", "time_logs">>

\* the Tasks the two callers pass to create_task
ConcTaskArgs ==
    {t \in TaskArgs("tags") :
        t.task_id <= 0 /\ t.completed = None /\ t.tags \in {None, Some(<<"t1">>)}}

\* the call has ended, by raising exc or (NoExc) by returning
Ended(k, exc) == [k EXCEPT !.pc = "done", !.raised = exc, !.local = None, !.todo = <<>>]

ConcInit ==
    /\ graph = <<>>
    /\ ret = [op |-> "init", task_id |-> -1, arg |-> None,
              raised |-> NoExc, value |-> None]
    /\ profile = "tags"
    /\ callers = [c \in Callers |-> Idle]

\* caller c enters create_task or add_tag.  create_task's tests of task_id
\* and name touch no store: they fix the call's first access
Call(c) ==
    /\ callers[c].pc \in {"idle", "done"}
    /\ \/ \E task \in ConcTaskArgs :
            callers' = [callers EXCEPT ![c] =
                [Idle EXCEPT !.op = "create_task", !.task = Some(task),
                             !.task_id = task.task_id,
                             !.pc = IF task.task_id < 0 THEN "count"
                                    ELSE IF task.name = EXISTING_NODE THEN "merge"
                                    ELSE "add_node",
                             !.todo = IF task.task_id >= 0 /\ task.name = EXISTING_NODE
                                      THEN SelectSeq(FieldOrder,
                                              LAMBDA f : f \in DOMAIN Without(TaskDict(task), "name"))
                                      ELSE <<>>]]
       \/ \E task_id \in TaskIds, tag \in TagValues :
            callers' = [callers EXCEPT ![c] =
                [Idle EXCEPT !.op = "add_tag", !.task_id = task_id, !.tag = tag,
                             !.pc = "load"]]
    /\ UNCHANGED <<graph, ret, profile>>

\* caller c makes the next store access of its call:
\*   count     task.task_id = len(graph.nodes)
\*   add_node  graph.add_node(task.task_id, kind="task", **task_spec)
\*   merge     graph.nodes[task.task_id][k] = v for the next key k
\*   load      task = get_task_from_graph(task_id, graph)
\*   store     the tag is added to the loaded Task, update_task_in_graph(task, graph)
Step(c) ==
    LET k == callers[c] IN
    /\ k.pc \notin {"idle", "done"}
    /\ k.pc = "count" => NodeCount(graph) <= MaxTaskId
    /\ CASE k.pc = "count" ->
              /\ graph' = graph
              /\ callers' = [callers EXCEPT ![c] =
                    [k EXCEPT !.pc = "add_node",
                              !.task = Some([k.task[1] EXCEPT !.task_id = NodeCount(graph)])]]
         [] k.pc = "add_node" ->
              LET task == k.task[1] IN
              /\ graph' = AddNode(graph, task.task_id,
                                  Merged([kind |-> "task"], TaskDict(task)))
              /\ callers' = [callers EXCEPT ![c] =
                    Ended([k EXCEPT !.writes = @ + 1], NoExc)]
         [] k.pc = "merge" ->
              LET task == k.task[1]
                  key == Head(k.todo)
              IN IF task.task_id \notin DOMAIN graph
                 THEN /\ graph' = graph
                      /\ callers' = [callers EXCEPT ![c] =
                            Ended([k EXCEPT !.reads = @ + 1], "KeyError")]
                 ELSE /\ graph' = [graph EXCEPT ![task.task_id] =
                                      Merged((key :> TaskDict(task)[key]), @)]
                      /\ callers' = [callers EXCEPT ![c] =
                            IF Len(k.todo) = 1
                            THEN Ended([k EXCEPT !.reads = @ + 1, !.writes = @ + 1], NoExc)
                            ELSE [k EXCEPT !.reads = @ + 1, !.writes = @ + 1,
                                           !.todo = Tail(@)]]
         [] k.pc = "load" ->
              LET got == get_task_from_graph(graph, k.task_id) IN
              /\ graph' = graph
              /\ callers' = [callers EXCEPT ![c] =
                    IF got.raised # NoExc
                    THEN Ended([k EXCEPT !.reads = @ + 1], got.raised)
                    ELSE [k EXCEPT !.reads = @ + 1, !.local = got.value, !.pc = "store"]]
         [] k.pc = "store" ->
              IF k.local[1].tags = None
              THEN /\ graph' = graph
                   /\ callers' = [callers EXCEPT ![c] = Ended(k, "TypeError")]
              ELSE \E ord \in Orderings(TagValues) :
                      LET members == SeqToSet(k.local[1].tags[1]) \cup {k.tag}
                          task == [k.local[1] EXCEPT !.tags = Some(ListOf(members, ord))]
                          put == update_task_in_graph(task, graph)
                      IN /\ graph' = put.graph
                         /\ callers' = [callers EXCEPT ![c] =
                               IF put.raised # NoExc THEN Ended(k, put.raised)
                               ELSE Ended([k EXCEPT !.writes = @ + 1], NoExc)]
    /\ UNCHANGED <<ret, profile>>

ConcNext == \E c \in Callers : Call(c) \/ Step(c)

ConcSpec == ConcInit /\ [][ConcNext]_vars

---------------------------------------------------------------------------
(* Properties *)

\* the stored completed flag of a node's attributes
Completed(attrs) == "completed" \in DOMAIN attrs /\ attrs["completed"] = TRUE

\* the members of a stored set field; an absent field has none
Members(attrs, field) ==
    IF field \in DOMAIN attrs THEN SeqToSet(attrs[field]) ELSE {}

\* the stored time logs of a node; an absent field has none
StoredLogs(attrs) == IF "time_logs" \in DOMAIN attrs THEN attrs["time_logs"] ELSE <<>>

\* the set field an add_/remove_ operation works on
FieldOf(op) ==
    CASE op \in {"add_tag", "remove_tag"} -> "tags"
      [] op \in {"add_url", "remove_url"} -> "urls"
      [] op \in {"add_user", "remove_user"} -> "users"

RemoveOps == {"remove_tag", "remove_url", "remove_user"}

AddOps == {"add_tag", "add_url", "add_user"}

SingleTaskOps ==
    {"complete_task", "update_task", "add_note", "update_note", "remove_note"}
        \cup AddOps \cup RemoveOps

\* C1: a create_task call with a negative task_id returns an id that no node
\* had and adds exactly one node.  The id returned is the node count before
\* the call, so the call added a node exactly when the count afterwards is
\* that id plus one.
C1_AutoIdAddsOneNode ==
    (ret.op = "create_task" /\ ret.task_id < 0 /\ ret.raised = NoExc)
        => NodeCount(graph) = ret.value[1] + 1

\* C2: complete_task on an existing task returns without raising and leaves the
\* task completed; on a task that is already completed (the second of two
\* calls) it writes nothing and returns the task.
C2_CompleteIdempotent ==
    [][(ret'.op = "complete_task" /\ ret'.task_id \in DOMAIN graph)
        => /\ ret'.raised = NoExc
           /\ ret'.value # None
           /\ ret'.task_id \in DOMAIN graph'
           /\ Completed(graph'[ret'.task_id])
           /\ Completed(graph[ret'.task_id]) => graph' = graph]_vars

C4_CompleteClosesLastLog ==
    [][(/\ ret'.op = "complete_task"
        /\ ret'.task_id \in DOMAIN graph
        /\ ~Completed(graph[ret'.task_id])
        /\ Len(StoredLogs(graph[ret'.task_id])) > 0)
        => /\ ret'.task_id \in DOMAIN graph'
           /\ LET old == StoredLogs(graph[ret'.task_id])
                  new == StoredLogs(graph'[ret'.task_id])
                  n == Len(old)
              IN /\ Len(new) = n
                 /\ \A i \in 1..(n - 1) : new[i] = old[i]
                 /\ "end_time" \in DOMAIN old[n] => new[n] = old[n]
                 /\ "end_time" \notin DOMAIN old[n] =>
                       /\ "end_time" \in DOMAIN new[n]
                       /\ Without(new[n], "end_time") = old[n]
                       /\ ret'.arg # None => new[n]["end_time"] = ret'.arg[1]]_vars

\* C5: complete_task on an existing, not-yet-completed task with no time logs
\* (absent or empty) succeeds and stores completed = true and exactly one time
\* log: end_time the supplied one, start_time unset, task_id and user_id the
\* task's own.
C5_CompleteCreatesOneLog ==
    [][(/\ ret'.op = "complete_task"
        /\ ret'.task_id \in DOMAIN graph
        /\ ~Completed(graph[ret'.task_id])
        /\ Len(StoredLogs(graph[ret'.task_id])) = 0)
        => /\ ret'.raised = NoExc
           /\ ret'.task_id \in DOMAIN graph'
           /\ Completed(graph'[ret'.task_id])
           /\ LET new == StoredLogs(graph'[ret'.task_id]) IN
                /\ Len(new) = 1
                /\ "start_time" \notin DOMAIN new[1]
                /\ "end_time" \in DOMAIN new[1]
                /\ ret'.arg # None => new[1]["end_time"] = ret'.arg[1]
                /\ new[1]["task_id"] = graph[ret'.task_id]["task_id"]
                /\ new[1]["user_id"] = graph[ret'.task_id]["user_id"]]_vars

\* C6: after create_task of a task with a non-negative id and a name other
\* than the sentinel, whatever the store held, get_task_from_graph of the
\* returned id yields a task with exactly the fields the created task set.
C6_CreateGetRoundTrip ==
    [][ret'.op = "create_task" =>
        \A task \in TaskArgs(profile) :
            (/\ task.task_id >= 0
             /\ task.name # EXISTING_NODE
             /\ graph' = create_task(graph, task).graph
             /\ ret' = Ret("create_task", task.task_id, Some(task.name),
                           create_task(graph, task)))
            => get_task_from_graph(graph', ret'.value[1])
                   = [raised |-> NoExc, value |-> Some(task)]]_vars

\* C7: update_task and complete_task with a task_id that is not in the store
\* return None without raising and leave the store unchanged.
C7_AbsentIdReturnsNone ==
    [][(ret'.op \in {"update_task", "complete_task"} /\ ret'.task_id \notin DOMAIN graph)
        => (ret'.raised = NoExc /\ ret'.value = None /\ graph' = graph)]_vars

\* C8: remove_tag, remove_url and remove_user of a value that is a member of
\* the task's field succeed and store the previous set minus that value.
C8_RemovePresentShrinks ==
    [][(/\ ret'.op \in RemoveOps
        /\ ret'.task_id \in DOMAIN graph
        /\ ret'.arg[1] \in Members(graph[ret'.task_id], FieldOf(ret'.op)))
        => /\ ret'.raised = NoExc
           /\ ret'.task_id \in DOMAIN graph'
           /\ Members(graph'[ret'.task_id], FieldOf(ret'.op))
                = Members(graph[ret'.task_id], FieldOf(ret'.op)) \ {ret'.arg[1]}]_vars

\* C9: remove_tag, remove_url and remove_user of a value that is no member of
\* the task's field fail with an error and leave the store as it was.
C9_RemoveAbsentFails ==
    [][(/\ ret'.op \in RemoveOps
        /\ ret'.task_id \in DOMAIN graph
        /\ ret'.arg[1] \notin Members(graph[ret'.task_id], FieldOf(ret'.op)))
        => (ret'.raised # NoExc /\ graph' = graph)]_vars

\* C9 witness: remove_tag of a value that is no member of the task's stored
\* tags has run and failed
C9_Witness ==
    /\ ret.op = "remove_tag"
    /\ ret.task_id \in DOMAIN graph
    /\ "tags" \in DOMAIN graph[ret.task_id]
    /\ ret.arg[1] \notin Members(graph[ret.task_id], "tags")
    /\ ret.raised # NoExc

\* C10: add_tag, add_url and add_user on an existing task holding the field
\* succeed and store the previous members plus the value (the same members
\* when the value is one already), in a sequence without duplicates.
C10_AddIsSetUnion ==
    [][(/\ ret'.op \in AddOps
        /\ ret'.task_id \in DOMAIN graph
        /\ FieldOf(ret'.op) \in DOMAIN graph[ret'.task_id])
        => /\ ret'.raised = NoExc
           /\ ret'.task_id \in DOMAIN graph'
           /\ Members(graph'[ret'.task_id], FieldOf(ret'.op))
                = Members(graph[ret'.task_id], FieldOf(ret'.op)) \cup {ret'.arg[1]}
           /\ LET stored == graph'[ret'.task_id][FieldOf(ret'.op)] IN
                Cardinality(SeqToSet(stored)) = Len(stored)]_vars


\* the task_ids of the Tasks a list_tasks call returned
ReturnedIds(out) == [i \in 1..Len(out.value[1]) |-> out.value[1][i]["task_id"]]

\* whether a node passes one requested dimension: nothing is requested by
\* None or by the empty list; otherwise the node must hold one wanted value
PassesDimension(attrs, field, wanted) ==
    (wanted # None /\ wanted # Some(<<>>))
        => \E v \in SeqToSet(wanted[1]) : v \in Members(attrs, field)

\* whether re.search(pattern, name) finds a match, for the patterns and the
\* names of the model: "n" occurs in every name but the empty one
SearchMatches(pattern, name) == pattern = "n" /\ name # ""

\* C11: for every limit and every combination of filters, a list_tasks call
\* that returns gives at most limit tasks, and their ids are those of the sort
\* step's sequence with some left out, in the same order; no other id appears.
C11_WithinLimitInSortOrder ==
    \A limit \in Limits :
        \A node_ids \in sort_nodes(graph, "importance", limit, FALSE, FALSE), a \in ListArgs :
            LET out == list_tasks(graph, node_ids, a.search, a.tags, a.urls, a.users) IN
            out.raised = NoExc =>
                /\ Len(ReturnedIds(out)) <= limit
                /\ ReturnedIds(out)
                     = SelectSeq(node_ids, LAMBDA n : n \in SeqToSet(ReturnedIds(out)))

\* C11 witness: list_tasks has returned as many tasks as the limit from a
\* store holding more nodes than the limit
C11_Witness ==
    /\ ret.op = "list_tasks"
    /\ ret.raised = NoExc
    /\ ret.arg[1] < NodeCount(graph)
    /\ Len(ret.value[1]) = ret.arg[1]

\* C12: without a search pattern list_tasks returns exactly the sorted
\* candidates that pass every requested dimension of tags, urls and users.
C12_FiltersOrWithinAndAcross ==
    \A limit \in Limits :
        \A node_ids \in sort_nodes(graph, "importance", limit, FALSE, FALSE), a \in ListArgs :
            a.search = None =>
                LET out == list_tasks(graph, node_ids, a.search, a.tags, a.urls, a.users) IN
                /\ out.raised = NoExc
                /\ ReturnedIds(out)
                     = SelectSeq(node_ids,
                          LAMBDA n : /\ PassesDimension(graph[n], "tags", a.tags)
                                     /\ PassesDimension(graph[n], "urls", a.urls)
                                     /\ PassesDimension(graph[n], "users", a.users))

\* C12 witness: list_tasks has returned some of the candidates and dropped
\* others though the limit allowed them
C12_Witness ==
    /\ ret.op = "list_tasks"
    /\ ret.raised = NoExc
    /\ Len(ret.value[1]) >= 1
    /\ Len(ret.value[1]) < ret.arg[1]
    /\ Len(ret.value[1]) < NodeCount(graph)

\* C13: with a non-empty search pattern list_tasks does not fail and returns
\* exactly the sorted candidates whose name the pattern matches (a node
\* without a name counts as the empty name) and that pass the other filters.
C13_SearchKeepsMatchingNames ==
    \A limit \in Limits :
        \A node_ids \in sort_nodes(graph, "importance", limit, FALSE, FALSE), a \in ListArgs :
            (a.search # None /\ a.search # Some("")) =>
                LET out == list_tasks(graph, node_ids, a.search, a.tags, a.urls, a.users) IN
                /\ out.raised = NoExc
                /\ ReturnedIds(out)
                     = SelectSeq(node_ids,
                          LAMBDA n : /\ SearchMatches(a.search[1],
                                          IF "name" \in DOMAIN graph[n]
                                          THEN graph[n]["name"] ELSE "")
                                     /\ PassesDimension(graph[n], "tags", a.tags)
                                     /\ PassesDimension(graph[n], "urls", a.urls)
                                     /\ PassesDimension(graph[n], "users", a.users))

\* the fields a Task argument sets explicitly: the required ones and the
\* Optional ones given a value
ExplicitFields(task) == RequiredFields \cup {f \in OptionalFields : task[f] # None}

\* the value a node holds for an explicitly set field f of a Task argument
StoredValue(task, f) ==
    IF f \in RequiredFields THEN task[f]
    ELSE IF f = "time_logs"
         THEN [i \in 1..Len(task[f][1]) |-> TimeLogDict(task[f][1][i])]
         ELSE task[f][1]

\* whether a create_task call with these recorded arguments is a merge into
\* an existing node
MergeCall(r) == r.op = "create_task" /\ r.task_id >= 0 /\ r.arg = Some(EXISTING_NODE)

\* C14: in every state of the store, create_task with the sentinel name and
\* the id of an existing node returns that id, sets on the node exactly the
\* explicitly set fields of the argument other than name, leaves every other
\* attribute of the node (its name included) and every other node as it was,
\* and adds no node.
C14_MergeSetsOnlyGivenFields ==
    \A task \in TaskArgs(profile) :
        (task.name = EXISTING_NODE /\ task.task_id \in DOMAIN graph) =>
            LET out == create_task(graph, task)
                old == graph[task.task_id]
                new == out.graph[task.task_id]
                given == ExplicitFields(task) \ {"name"}
            IN /\ out.raised = NoExc
               /\ out.value = Some(task.task_id)
               /\ DOMAIN out.graph = DOMAIN graph
               /\ DOMAIN new = DOMAIN old \cup given
               /\ \A f \in given : new[f] = StoredValue(task, f)
               /\ \A k \in (DOMAIN old) \ given : new[k] = old[k]
               /\ \A n \in (DOMAIN graph) \ {task.task_id} : out.graph[n] = graph[n]

\* C14 witness: a merge call has returned the id of a node that keeps its own
\* name and kind and now holds a field the call gave
C14_Witness ==
    /\ MergeCall(ret)
    /\ ret.raised = NoExc
    /\ ret.value = Some(ret.task_id)
    /\ graph[ret.task_id]["name"] = "n1"
    /\ "kind" \in DOMAIN graph[ret.task_id]
    /\ Completed(graph[ret.task_id])

\* the stored notes of a node; an absent field has none
StoredNotes(attrs) == IF "notes" \in DOMAIN attrs THEN attrs["notes"] ELSE <<>>

\* C15: update_note and remove_note with a note_id that is negative or at
\* least the number of notes leave the notes of the task as they were.
C15_OutOfRangeNoteIdKeepsNotes ==
    [][(/\ ret'.op \in {"update_note", "remove_note"}
        /\ ret'.task_id \in DOMAIN graph
        /\ \/ ret'.arg[1] < 0
           \/ ret'.arg[1] >= Len(StoredNotes(graph[ret'.task_id])))
        => /\ ret'.task_id \in DOMAIN graph'
           /\ ("notes" \in DOMAIN graph'[ret'.task_id])
                 = ("notes" \in DOMAIN graph[ret'.task_id])
           /\ StoredNotes(graph'[ret'.task_id]) = StoredNotes(graph[ret'.task_id])]_vars

\* C15 witness: update_note has been called with note_id -1 on a task that
\* holds notes
C15_Witness ==
    /\ ret.op = "update_note"
    /\ ret.arg = Some(-1)
    /\ ret.task_id \in DOMAIN graph
    /\ Len(StoredNotes(graph[ret.task_id])) >= 1

\* C16: no stored task has the sentinel string as its name.
C16_SentinelNeverStored ==
    \A n \in DOMAIN graph : graph[n]["name"] # EXISTING_NODE

\* whether an Optional string argument is given: not None and not empty
GivenString(arg) == arg # None /\ arg[1] # ""

\* whether attribute k is the same in two attribute dicts: absent in both, or
\* present in both with one value
SameAttr(old, new, k) ==
    /\ (k \in DOMAIN new) = (k \in DOMAIN old)
    /\ k \in DOMAIN old => new[k] = old[k]

\* C18: update_task on an existing task returns, and afterwards each of
\* user_id, name, completed, importance, due holds the argument where one was
\* given (non-null, and non-empty for the two strings) and its old value
\* where none was; tags, urls, users, notes, time_logs and task_id are as
\* they were.
C18_UpdateOverwritesGivenFields ==
    [][(ret'.op = "update_task" /\ ret'.task_id \in DOMAIN graph) =>
        \A a \in UpdateArgs :
            LET out == update_task(graph, ret'.task_id, a.user_id, a.name, a.completed,
                                   a.importance, a.due)
            IN (graph' = out.graph /\ ret' = Ret("update_task", ret'.task_id, a.completed, out))
               => /\ ret'.raised = NoExc
                  /\ ret'.task_id \in DOMAIN graph'
                  /\ LET old == graph[ret'.task_id]
                         new == graph'[ret'.task_id]
                     IN /\ IF GivenString(a.user_id) THEN new["user_id"] = a.user_id[1]
                           ELSE new["user_id"] = old["user_id"]
                        /\ IF GivenString(a.name) THEN new["name"] = a.name[1]
                           ELSE new["name"] = old["name"]
                        /\ IF a.importance # None THEN new["importance"] = a.importance[1]
                           ELSE new["importance"] = old["importance"]
                        /\ IF a.completed # None
                           THEN "completed" \in DOMAIN new /\ new["completed"] = a.completed[1]
                           ELSE SameAttr(old, new, "completed")
                        /\ IF a.due # None
                           THEN "due" \in DOMAIN new /\ new["due"] = a.due[1]
                           ELSE SameAttr(old, new, "due")
                        /\ \A k \in {"tags", "urls", "users", "notes", "time_logs", "task_id"} :
                              SameAttr(old, new, k)]_vars

\* C20: a single-task operation, and create_task merging into an existing
\* node, called with task_id t leaves every node other than t as it was and
\* keeps the set of node ids; the set of node ids changes only in a
\* create_task call that is not a merge; and after every call each node's
\* stored task_id is its id.
C20_OtherNodesAndIdsKept ==
    [][/\ (ret'.op \in SingleTaskOps \/ MergeCall(ret'))
            => /\ DOMAIN graph' = DOMAIN graph
               /\ \A n \in (DOMAIN graph) \ {ret'.task_id} : graph'[n] = graph[n]
       /\ DOMAIN graph' # DOMAIN graph
            => (ret'.op = "create_task" /\ ~MergeCall(ret'))
       /\ \A n \in DOMAIN graph' : graph'[n]["task_id"] = n]_vars

\* C20 witness: a merge call has returned on one node of a store that holds
\* another node, created under an id taken from the node count
C20_Witness ==
    /\ MergeCall(ret)
    /\ ret.raised = NoExc
    /\ NodeCount(graph) >= 2
    /\ \E n \in DOMAIN graph : n # ret.task_id /\ graph[n]["task_id"] = n

\* C17: when two callers have each made an add_tag call, with different
\* tags, on one task that both found in the store, both calls have returned
\* and the stored tags hold the tag of at least one of them, that of the
\* caller that wrote last; one tag alone stored is the lost update.
C17_LaterAddTagWins ==
    \A c, d \in Callers :
        (/\ c # d
         /\ callers[c].pc = "done" /\ callers[d].pc = "done"
         /\ callers[c].op = "add_tag" /\ callers[d].op = "add_tag"
         /\ callers[c].task_id = callers[d].task_id
         /\ callers[c].tag # callers[d].tag
         /\ callers[c].raised # "KeyError" /\ callers[d].raised # "KeyError"
         /\ callers[c].task_id \in DOMAIN graph)
        => /\ callers[c].raised = NoExc
           /\ callers[d].raised = NoExc
           /\ {callers[c].tag, callers[d].tag}
                 \cap Members(graph[callers[c].task_id], "tags") # {}

\* C19: a call that has ended has looked the task up exactly once; a call that
\* has returned has written the store exactly once; and a call that has not
\* ended has written nothing yet, so that the store never shows part of its
\* changes.
C19_OneReadOneFullWrite ==
    \A c \in Callers :
        /\ callers[c].pc = "done" => callers[c].reads = 1
        /\ (callers[c].pc = "done" /\ callers[c].raised = NoExc) => callers[c].writes = 1
        /\ callers[c].pc \notin {"idle", "done"} => callers[c].writes = 0

============================================================================
